---- MODULE Spec2Model ----
(***************************************************************************)
(* String case conversion: toCamelCase (three implementations),            *)
(* toKebabCase and toDotCase (module and global variants).                 *)
(*                                                                         *)
(* A JavaScript string is a sequence of one-character strings.  A value    *)
(* passed to a function is a record [type, str, num]: type is what typeof  *)
(* and the null/undefined tests see, str the characters of a string, num   *)
(* the value of a number.                                                  *)
(***************************************************************************)
EXTENDS Integers, Sequences, FiniteSets

VARIABLES
    input,   \* the value passed to the function
    words,   \* the words / tokens the input was written from (<<>> for a raw input)
    conv,    \* the naming convention the input was written in ("none" for a raw input)
    seps,    \* the separator runs placed around the tokens (<<>> when not used)
    fn,      \* the function last called ("none" before any call)
    out,     \* outcome of the last call: return value or thrown error, and its locals
    out2     \* outcome of calling the same function on the returned string

vars == <<input, words, conv, seps, fn, out, out2>>

\* ------------------------------------------------------------------ bounds

MaxLen == 4
MaxNum == 11
MaxWords == 3
MaxTokens == 2

\* -------------------------------------------------------------- characters

LowerLetters == <<"a","b","c","d","e","f","g","h","i","j","k","l","m",
                  "n","o","p","q","r","s","t","u","v","w","x","y","z">>
UpperLetters == <<"A","B","C","D","E","F","G","H","I","J","K","L","M",
                  "N","O","P","Q","R","S","T","U","V","W","X","Y","Z">>
Digits == <<"0","1","2","3","4","5","6","7","8","9">>

Range(s) == {s[i] : i \in 1..Len(s)}

IsLower(c) == c \in Range(LowerLetters)
IsUpper(c) == c \in Range(UpperLetters)
IsDigit(c) == c \in Range(Digits)

\* the character class [A-Za-z0-9]
IsAlnum(c) == IsLower(c) \/ IsUpper(c) \/ IsDigit(c)

\* the character class [a-z0-9]
IsLowerOrDigit(c) == IsLower(c) \/ IsDigit(c)

\* white space as String.prototype.trim sees it (space, tab, line feed)
IsWhitespace(c) == c \in {" ", "\t", "\n"}

IndexIn(c, s) == CHOOSE i \in 1..Len(s) : s[i] = c

ToLowerChar(c) == IF IsUpper(c) THEN LowerLetters[IndexIn(c, UpperLetters)] ELSE c
ToUpperChar(c) == IF IsLower(c) THEN UpperLetters[IndexIn(c, LowerLetters)] ELSE c

\* String.prototype.toLowerCase / toUpperCase
toLowerCase(s) == [i \in 1..Len(s) |-> ToLowerChar(s[i])]
toUpperCase(s) == [i \in 1..Len(s) |-> ToUpperChar(s[i])]

\* ------------------------------------------------------------------ values

Null == [type |-> "null", str |-> <<>>, num |-> 0]
Undefined == [type |-> "undefined", str |-> <<>>, num |-> 0]
NumberValue(n) == [type |-> "number", str |-> <<>>, num |-> n]
StringValue(s) == [type |-> "string", str |-> s, num |-> 0]

RECURSIVE DecimalDigits(_)
DecimalDigits(n) ==
    IF n < 10 THEN <<Digits[n + 1]>>
    ELSE DecimalDigits(n \div 10) \o <<Digits[(n % 10) + 1]>>

\* String(v) for a value that is neither null nor undefined
JsString(v) == IF v.type = "number" THEN DecimalDigits(v.num) ELSE v.str

\* ------------------------------------------------------- string primitives

RECURSIVE TrimStart(_)
TrimStart(s) ==
    IF s # <<>> /\ IsWhitespace(Head(s)) THEN TrimStart(Tail(s)) ELSE s

RECURSIVE TrimEnd(_)
TrimEnd(s) ==
    IF s # <<>> /\ IsWhitespace(s[Len(s)])
    THEN TrimEnd(SubSeq(s, 1, Len(s) - 1)) ELSE s

\* String.prototype.trim
Trim(s) == TrimEnd(TrimStart(s))

\* s.split(/[^A-Za-z0-9_]+/): the split with the underscore taken for a word
\* character
RECURSIVE SplitNonWordFrom(_, _, _)
SplitNonWordFrom(s, i, cur) ==
    IF i > Len(s) THEN <<cur>>
    ELSE IF IsAlnum(s[i]) \/ s[i] = "_" THEN SplitNonWordFrom(s, i + 1, Append(cur, s[i]))
    ELSE IF i > 1 /\ ~(IsAlnum(s[i - 1]) \/ s[i - 1] = "_") THEN SplitNonWordFrom(s, i + 1, cur)
    ELSE <<cur>> \o SplitNonWordFrom(s, i + 1, <<>>)

SplitNonWord(s) == SplitNonWordFrom(s, 1, <<>>)

\* s.split(/[^A-Za-z0-9]+/): the pieces between the maximal runs of characters
\* outside [A-Za-z0-9]; a run at the start or the end leaves an empty piece,
\* and the empty string splits into one empty piece.
RECURSIVE SplitFrom(_, _, _)
SplitFrom(s, i, cur) ==
    IF i > Len(s) THEN <<cur>>
    ELSE IF IsAlnum(s[i]) THEN SplitFrom(s, i + 1, Append(cur, s[i]))
    ELSE IF i > 1 /\ ~IsAlnum(s[i - 1]) THEN SplitFrom(s, i + 1, cur)
    ELSE <<cur>> \o SplitFrom(s, i + 1, <<>>)

SplitNonAlnum(s) == SplitFrom(s, 1, <<>>)

\* the filter left out: every piece is kept
KeepAll(parts) == parts

\* parts.filter(Boolean): the empty string is falsy
FilterBoolean(parts) == SelectSeq(parts, LAMBDA p : p # <<>>)

\* parts.join(sep)
RECURSIVE Join(_, _)
Join(parts, sep) ==
    IF parts = <<>> THEN <<>>
    ELSE IF Len(parts) = 1 THEN parts[1]
    ELSE parts[1] \o sep \o Join(Tail(parts), sep)

\* the replace without the g flag: only the first match is replaced
RECURSIVE ExpandFirstFrom(_, _)
ExpandFirstFrom(s, i) ==
    IF i > Len(s) THEN <<>>
    ELSE IF i < Len(s) /\ IsLowerOrDigit(s[i]) /\ IsUpper(s[i + 1])
         THEN <<s[i], " ">> \o SubSeq(s, i + 1, Len(s))
    ELSE <<s[i]>> \o ExpandFirstFrom(s, i + 1)

ExpandFirst(s) == ExpandFirstFrom(s, 1)

\* the replace with the flags gi: both classes match letters of either case
RECURSIVE ExpandIgnoreCaseFrom(_, _)
ExpandIgnoreCaseFrom(s, i) ==
    IF i > Len(s) THEN <<>>
    ELSE IF i < Len(s) /\ IsAlnum(s[i]) /\ (IsUpper(s[i + 1]) \/ IsLower(s[i + 1]))
         THEN <<s[i], " ", s[i + 1]>> \o ExpandIgnoreCaseFrom(s, i + 2)
    ELSE <<s[i]>> \o ExpandIgnoreCaseFrom(s, i + 1)

ExpandIgnoreCase(s) == ExpandIgnoreCaseFrom(s, 1)

\* s.replace(/([a-z0-9])([A-Z])/g, '$1 $2'): matches are found left to right
\* and do not overlap; the scan resumes after the two characters of a match.
RECURSIVE ExpandFrom(_, _)
ExpandFrom(s, i) ==
    IF i > Len(s) THEN <<>>
    ELSE IF i < Len(s) /\ IsLowerOrDigit(s[i]) /\ IsUpper(s[i + 1])
         THEN <<s[i], " ", s[i + 1]>> \o ExpandFrom(s, i + 2)
    ELSE <<s[i]>> \o ExpandFrom(s, i + 1)

ExpandBoundaries(s) == ExpandFrom(s, 1)

\* ---------------------------------------------------------------- outcomes

NoCall == [kind |-> "none", val |-> <<>>, err |-> "",
           trimmed |-> <<>>, withBoundaries |-> <<>>, parts |-> <<>>]

\* a thrown TypeError; err names which of the messages it carries
Throw(e, t, w, p) == [kind |-> "throw", val |-> <<>>, err |-> e,
                      trimmed |-> t, withBoundaries |-> w, parts |-> p]

Return(v, t, w, p) == [kind |-> "return", val |-> v, err |-> "",
                       trimmed |-> t, withBoundaries |-> w, parts |-> p]

\* ------------------------------------------------------------- toCamelCase

\* the map callback with every part capitalized, the first one too
CamelPartCapAll(part, idx) ==
    LET lower == toLowerCase(part)
    IN  IF lower = <<>> THEN <<>> ELSE <<ToUpperChar(lower[1])>> \o Tail(lower)

\* the map callback without the lowercasing of the part
CamelPartNoLower(part, idx) ==
    IF idx = 0 THEN part
    ELSE IF part = <<>> THEN <<>> ELSE <<ToUpperChar(part[1])>> \o Tail(part)

\* the map callback of toCamelCase (idx counts from 0):
\* lower.charAt(0).toUpperCase() + lower.slice(1)
CamelPart(part, idx) ==
    LET lower == toLowerCase(part)
    IN  IF idx = 0 THEN lower
        ELSE IF lower = <<>> THEN <<>> ELSE <<ToUpperChar(lower[1])>> \o Tail(lower)

CamelJoin(parts) == Join([i \in 1..Len(parts) |-> CamelPart(parts[i], i - 1)], <<>>)

\* refined_prompt.js
toCamelCase(v) ==
    IF v.type \in {"null", "undefined"} THEN Throw("null_or_undefined", <<>>, <<>>, <<>>)
    ELSE IF v.type # "string" THEN Throw("not_a_string", <<>>, <<>>, <<>>)
    ELSE LET trimmed == Trim(v.str)
             parts == FilterBoolean(SplitNonAlnum(trimmed))
         IN  IF Len(trimmed) = 0 THEN Throw("empty", trimmed, <<>>, <<>>)
             ELSE IF Len(parts) = 0 THEN Throw("no_alphanumeric", trimmed, <<>>, parts)
             ELSE Return(CamelJoin(parts), trimmed, <<>>, parts)

\* few_shot_prompt.js
few_shot_toCamelCase(v) ==
    IF v.type \in {"null", "undefined"} THEN Return(<<>>, <<>>, <<>>, <<>>)
    ELSE LET str == Trim(JsString(v))
             parts == FilterBoolean(SplitNonAlnum(str))
         IN  IF Len(str) = 0 THEN Return(<<>>, str, <<>>, <<>>)
             ELSE IF Len(parts) = 0 THEN Return(<<>>, str, <<>>, parts)
             ELSE Return(CamelJoin(parts), str, <<>>, parts)

\* part.charAt(0).toUpperCase() + part.slice(1); charAt(0) of '' is ''
CapitalizeFirst(part) ==
    IF part = <<>> THEN <<>> ELSE <<ToUpperChar(part[1])>> \o Tail(part)

\* the second function of unnamed/part_000, its .map(p => p.toLowerCase()) left out
part_000_toCamelCaseNoLower(v) ==
    IF v.type \in {"null", "undefined"} THEN Throw("null_or_undefined", <<>>, <<>>, <<>>)
    ELSE IF v.type # "string" THEN Throw("not_a_string", <<>>, <<>>, <<>>)
    ELSE LET parts == FilterBoolean(SplitNonAlnum(v.str))
         IN  IF Len(parts) = 0 THEN Return(<<>>, <<>>, <<>>, parts)
             ELSE Return(Join([i \in 1..Len(parts) |->
                                 IF i = 1 THEN parts[i]
                                 ELSE CapitalizeFirst(parts[i])],
                              <<>>),
                         <<>>, <<>>, parts)

\* the second function of unnamed/part_000: no trim; the parts are lowercased
\* before the map that capitalizes
part_000_toCamelCase(v) ==
    IF v.type \in {"null", "undefined"} THEN Throw("null_or_undefined", <<>>, <<>>, <<>>)
    ELSE IF v.type # "string" THEN Throw("not_a_string", <<>>, <<>>, <<>>)
    ELSE LET split == FilterBoolean(SplitNonAlnum(v.str))
             parts == [i \in 1..Len(split) |-> toLowerCase(split[i])]
         IN  IF Len(parts) = 0 THEN Return(<<>>, <<>>, <<>>, parts)
             ELSE Return(Join([i \in 1..Len(parts) |->
                                 IF i = 1 THEN parts[i]
                                 ELSE CapitalizeFirst(parts[i])],
                              <<>>),
                         <<>>, <<>>, parts)

\* ------------------------------------------------- toKebabCase, toDotCase

\* the same body with the camelCase boundary step left out
DelimitedNoBoundaries(v, joiner) ==
    IF v.type \in {"null", "undefined"} THEN Throw("null_or_undefined", <<>>, <<>>, <<>>)
    ELSE IF v.type # "string" THEN Throw("not_a_string", <<>>, <<>>, <<>>)
    ELSE LET trimmed == Trim(v.str)
             withBoundaries == trimmed
             parts == FilterBoolean(SplitNonAlnum(withBoundaries))
         IN  IF Len(trimmed) = 0 THEN Throw("empty", trimmed, <<>>, <<>>)
             ELSE IF Len(parts) = 0
                  THEN Throw("no_alphanumeric", trimmed, withBoundaries, parts)
             ELSE Return(Join([i \in 1..Len(parts) |-> toLowerCase(parts[i])], joiner),
                         trimmed, withBoundaries, parts)

\* the body shared, statement for statement, by toKebabCase and both toDotCase
Delimited(v, joiner) ==
    IF v.type \in {"null", "undefined"} THEN Throw("null_or_undefined", <<>>, <<>>, <<>>)
    ELSE IF v.type # "string" THEN Throw("not_a_string", <<>>, <<>>, <<>>)
    ELSE LET trimmed == Trim(v.str)
             withBoundaries == ExpandBoundaries(trimmed)
             parts == FilterBoolean(SplitNonAlnum(withBoundaries))
         IN  IF Len(trimmed) = 0 THEN Throw("empty", trimmed, <<>>, <<>>)
             ELSE IF Len(parts) = 0
                  THEN Throw("no_alphanumeric", trimmed, withBoundaries, parts)
             ELSE Return(Join([i \in 1..Len(parts) |-> toLowerCase(parts[i])], joiner),
                         trimmed, withBoundaries, parts)

\* unnamed/part_000
toKebabCase(v) == Delimited(v, <<"-">>)

\* refined_prompt.js, the CommonJS branch
toDotCase(v) == Delimited(v, <<".">>)

\* refined_prompt.js, the branch that attaches to the global object
global_toDotCase(v) == Delimited(v, <<".">>)

CamelFunctions == {"toCamelCase", "few_shot_toCamelCase", "part_000_toCamelCase"}
DelimitedFunctions == {"toKebabCase", "toDotCase", "global_toDotCase"}

Apply(f, v) ==
    CASE f = "toCamelCase" -> toCamelCase(v)
      [] f = "few_shot_toCamelCase" -> few_shot_toCamelCase(v)
      [] f = "part_000_toCamelCase" -> part_000_toCamelCase(v)
      [] f = "toKebabCase" -> toKebabCase(v)
      [] f = "toDotCase" -> toDotCase(v)
      [] f = "global_toDotCase" -> global_toDotCase(v)

JoinerOf(f) == IF f = "toKebabCase" THEN "-" ELSE "."

\* ------------------------------------------------------------------ inputs

Alphabet == {"a", "B", "1", "-", " "}

Strings(n) == UNION {[1..k -> Alphabet] : k \in 0..n}

Values == {Null, Undefined}
          \cup {NumberValue(n) : n \in {0, MaxNum}}
          \cup {StringValue(s) : s \in Strings(MaxLen)}

\* words, written in lower case: one letter, two letters, a digit, and a digit
\* before and after a letter
Words == {<<"a">>, <<"a", "b">>, <<"1">>, <<"a", "1">>, <<"1", "a">>}

WordSeqs == UNION {[1..k -> Words] : k \in 1..MaxWords}

Conventions == {"space", "underscore", "hyphen", "camel", "allcaps"}

Capitalize(w) == <<ToUpperChar(w[1])>> \o Tail(w)

\* the sequence of words ws written in convention c
Render(ws, c) ==
    CASE c = "space" -> Join(ws, <<" ">>)
      [] c = "underscore" -> Join(ws, <<"_">>)
      [] c = "hyphen" -> Join(ws, <<"-">>)
      [] c = "camel" -> Join([i \in 1..Len(ws) |->
                                IF i = 1 THEN ws[i] ELSE Capitalize(ws[i])], <<>>)
      [] c = "allcaps" -> Join([i \in 1..Len(ws) |-> toUpperCase(ws[i])], <<"_">>)

\* tokens of either case, and the runs of separators around and between them
Tokens == {<<"a">>, <<"B", "1">>, <<"A", "b">>}

TokenSeqs == UNION {[1..k -> Tokens] : k \in 1..MaxTokens}

InnerRuns == {<<"_">>, <<"-">>, <<" ">>, <<"-", " ">>}
OuterRuns == {<<>>, <<" ">>, <<"_">>}

\* the fills of a sequence of n tokens: a run before, between and after
Fills(n) == {f \in [1..(n + 1) -> InnerRuns \cup OuterRuns] :
               /\ f[1] \in OuterRuns
               /\ f[n + 1] \in OuterRuns
               /\ \A i \in 2..n : f[i] \in InnerRuns}

RECURSIVE FillFrom(_, _, _)
FillFrom(ts, f, i) ==
    IF i > Len(ts) THEN f[i] ELSE f[i] \o ts[i] \o FillFrom(ts, f, i + 1)

Fill(ts, f) == FillFrom(ts, f, 1)

\* ----------------------------------------------------------- state machine

Fresh == /\ fn = "none"
         /\ out = NoCall
         /\ out2 = NoCall

\* any value may be passed
Init == /\ input \in Values
        /\ words = <<>>
        /\ conv = "none"
        /\ seps = <<>>
        /\ Fresh

\* a sequence of words written in one of the naming conventions
InitConv == /\ words \in WordSeqs
            /\ conv \in Conventions
            /\ seps = <<>>
            /\ input = StringValue(Render(words, conv))
            /\ Fresh

\* a sequence of tokens with separator runs around and between them
InitSep == /\ words \in TokenSeqs
           /\ conv = "none"
           /\ seps \in Fills(Len(words))
           /\ input = StringValue(Fill(words, seps))
           /\ Fresh

Call_toCamelCase ==
    /\ fn' = "toCamelCase"
    /\ out' = toCamelCase(input)
    /\ out2' = NoCall
    /\ UNCHANGED <<input, words, conv, seps>>

Call_few_shot_toCamelCase ==
    /\ fn' = "few_shot_toCamelCase"
    /\ out' = few_shot_toCamelCase(input)
    /\ out2' = NoCall
    /\ UNCHANGED <<input, words, conv, seps>>

Call_part_000_toCamelCase ==
    /\ fn' = "part_000_toCamelCase"
    /\ out' = part_000_toCamelCase(input)
    /\ out2' = NoCall
    /\ UNCHANGED <<input, words, conv, seps>>

Call_toKebabCase ==
    /\ fn' = "toKebabCase"
    /\ out' = toKebabCase(input)
    /\ out2' = NoCall
    /\ UNCHANGED <<input, words, conv, seps>>

Call_toDotCase ==
    /\ fn' = "toDotCase"
    /\ out' = toDotCase(input)
    /\ out2' = NoCall
    /\ UNCHANGED <<input, words, conv, seps>>

Call_global_toDotCase ==
    /\ fn' = "global_toDotCase"
    /\ out' = global_toDotCase(input)
    /\ out2' = NoCall
    /\ UNCHANGED <<input, words, conv, seps>>

\* the caller passes the returned string to the same function again
Reapply == /\ out.kind = "return"
           /\ out2.kind = "none"
           /\ out2' = Apply(fn, StringValue(out.val))
           /\ UNCHANGED <<input, words, conv, seps, fn, out>>

Next == \/ Call_toCamelCase
        \/ Call_few_shot_toCamelCase
        \/ Call_part_000_toCamelCase
        \/ Call_toKebabCase
        \/ Call_toDotCase
        \/ Call_global_toDotCase
        \/ Reapply

Spec == Init /\ [][Next]_vars
SpecConv == InitConv /\ [][Next]_vars
SpecSep == InitSep /\ [][Next]_vars

\* ---------------------------------------------------------- claim helpers

Called == fn # "none"

IsString(v) == v.type = "string"

HasAlnum(s) == \E i \in 1..Len(s) : IsAlnum(s[i])

HasUpper(s) == \E i \in 1..Len(s) : IsUpper(s[i])

\* absent, not a string, or blank after trimming
InvalidInput(v) == ~IsString(v) \/ Trim(v.str) = <<>>

\* s.split(c) for a one-character string c: every piece, the empty ones too
RECURSIVE SplitOnFrom(_, _, _, _)
SplitOnFrom(s, c, i, cur) ==
    IF i > Len(s) THEN <<cur>>
    ELSE IF s[i] = c THEN <<cur>> \o SplitOnFrom(s, c, i + 1, <<>>)
    ELSE SplitOnFrom(s, c, i + 1, Append(cur, s[i]))

SplitOn(s, c) == SplitOnFrom(s, c, 1, <<>>)

\* the positions of t where a character of [a-z0-9] is followed by one of [A-Z]
Boundaries(t) == {i \in 1..(Len(t) - 1) : IsLowerOrDigit(t[i]) /\ IsUpper(t[i + 1])}

\* where character i of t stands once a space is put after every boundary
Shifted(t, i) == i + Cardinality({b \in Boundaries(t) : b < i})

\* e is t with exactly one space after every boundary position and nothing else
IsExpansionOf(e, t) ==
    /\ Len(e) = Len(t) + Cardinality(Boundaries(t))
    /\ \A i \in 1..Len(t) : e[Shifted(t, i)] = t[i]
    /\ \A b \in Boundaries(t) : e[Shifted(t, b) + 1] = " "

\* ------------------------------------------------------------------ claims

\* C1 (as claimed): every implementation throws an invalid-input error, and
\* returns nothing, when the input is null/undefined, not a string, or blank
\* after trimming.
C1_InvalidInputThrows ==
    (Called /\ InvalidInput(input)) =>
        (out.kind = "throw" /\ out.err \in {"null_or_undefined", "not_a_string", "empty"})

\* C2 (as claimed): a non-blank string without a character of [A-Za-z0-9] makes
\* every conversion throw the no-tokens error, and no conversion returns the
\* empty string (stated for the inputs that pass validation; C1 covers the rest).
C2_NoTokensThrows ==
    (Called /\ ~InvalidInput(input)) =>
        /\ ~HasAlnum(input.str) => (out.kind = "throw" /\ out.err = "no_alphanumeric")
        /\ ~(out.kind = "return" /\ out.val = <<>>)

\* C3: toKebabCase and toDotCase applied to their own output return that
\* output again, and the second application never throws.
C3_DelimitedIdempotent ==
    (fn \in DelimitedFunctions /\ out.kind = "return" /\ out2.kind # "none") =>
        (out2.kind = "return" /\ out2.val = out.val)

C3_Witness ==
    /\ fn = "toKebabCase"
    /\ out2.kind = "return"
    /\ Len(out.parts) >= 2
    /\ out.withBoundaries # out.trimmed
    /\ HasUpper(out.trimmed)

\* C4 (as claimed): when the second application leaves the first character of
\* the output as it was, toCamelCase applied to its own output returns that
\* output again.
C4_CamelIdempotent ==
    (/\ fn = "toCamelCase"
     /\ out2.kind = "return"
     /\ out2.val # <<>>
     /\ out2.val[1] = out.val[1]) => out2.val = out.val

\* C4 (amended): toCamelCase applied to its own output returns that output in
\* lower case, so it returns the output again exactly when the output holds
\* no upper-case letter; the first character is never changed.
C4_CamelReapplyLowercases ==
    (fn \in CamelFunctions /\ out.kind = "return" /\ out2.kind # "none") =>
        /\ out2.kind = "return"
        /\ out2.val = toLowerCase(out.val)
        /\ out.val # <<>> => out2.val[1] = out.val[1]
        /\ (out2.val = out.val) <=> ~HasUpper(out.val)

C4_Witness ==
    /\ fn = "toCamelCase"
    /\ out2.kind = "return"
    /\ HasUpper(out.val)
    /\ out2.val # out.val

\* ---- C5: the conventions an input is written in

\* what the function returns for the same words written with spaces
FromSpaces == Apply(fn, StringValue(Render(words, "space")))

SameAsFromSpaces == out.kind = "return" /\ FromSpaces.kind = "return"
                    /\ out.val = FromSpaces.val

\* some word has a digit right before a letter
DigitBeforeLetter(ws) ==
    \E k \in 1..Len(ws) : \E i \in 1..(Len(ws[k]) - 1) :
        IsDigit(ws[k][i]) /\ IsLower(ws[k][i + 1])

\* every word after the first begins with a letter
LaterWordsBeginWithLetter(ws) == \A k \in 2..Len(ws) : IsLower(ws[k][1])

\* no word after the first begins with a letter
NoLaterWordBeginsWithLetter(ws) == \A k \in 2..Len(ws) : ~IsLower(ws[k][1])

\* every word strictly between the first and the last has two characters or more
MiddleWordsLong(ws) == \A k \in 2..(Len(ws) - 1) : Len(ws[k]) >= 2

\* the cases in which the convention of the input does not change the output
Converges(f, c, ws) ==
    \/ c \in {"space", "underscore", "hyphen"}
    \/ c = "allcaps" /\ (f \in CamelFunctions \/ ~DigitBeforeLetter(ws))
    \/ c = "camel" /\ f \in DelimitedFunctions
         /\ LaterWordsBeginWithLetter(ws) /\ MiddleWordsLong(ws)
    \/ c = "camel" /\ f \in CamelFunctions /\ NoLaterWordBeginsWithLetter(ws)

\* C5 (as claimed): whatever convention a sequence of words is written in,
\* each conversion returns what it returns for the words written with spaces.
C5_ConventionAgnostic ==
    (Called /\ conv # "none") => SameAsFromSpaces

\* C5 (amended): the output is the same for the words written with spaces,
\* underscores or hyphens; written in ALL_CAPS it is the same from toCamelCase,
\* and from toKebabCase/toDotCase exactly when no word has a digit right before
\* a letter; written in camelCase it is the same from toKebabCase/toDotCase
\* exactly when every later word begins with a letter and every word between
\* the first and the last has two characters or more, and from toCamelCase
\* exactly when no later word begins with a letter.
C5_ConvergesOnSeparators ==
    (Called /\ conv # "none") =>
        /\ out.kind = "return"
        /\ SameAsFromSpaces <=> Converges(fn, conv, words)

C5_Witness ==
    /\ fn = "toKebabCase"
    /\ conv = "camel"
    /\ Len(words) = 3
    /\ IsLower(words[1][1])
    /\ Converges(fn, conv, words)
    /\ Len(out.parts) = 3

\* C6: the output of toKebabCase (toDotCase) split on its joiner has as many
\* segments as the call had tokens, and no segment is empty.
C6_TokenCountPreserved ==
    (fn \in DelimitedFunctions /\ out.kind = "return") =>
        LET segments == SplitOn(out.val, JoinerOf(fn))
        IN  /\ Len(segments) = Len(out.parts)
            /\ Len(segments) = Len(FilterBoolean(SplitNonAlnum(out.withBoundaries)))
            /\ \A i \in 1..Len(segments) : segments[i] # <<>>

C6_Witness ==
    /\ fn = "toDotCase"
    /\ out.kind = "return"
    /\ Len(SplitOn(out.val, ".")) = 2
    /\ out.trimmed[1] = "-"
    /\ out.withBoundaries # out.trimmed

\* C7: toCamelCase returns the same string whatever runs of separators stand
\* before, between and after the same tokens.
C7_SeparatorAgnostic ==
    (fn \in CamelFunctions /\ seps # <<>>) =>
        /\ out.kind = "return"
        /\ out.val = Apply(fn, StringValue(Join(words, <<"_">>))).val
        /\ out.parts = words \/ out.parts = [i \in 1..Len(words) |-> toLowerCase(words[i])]

C7_Witness ==
    /\ fn = "toCamelCase"
    /\ Len(words) = 2
    /\ seps # <<>>
    /\ seps[1] = <<"_">>
    /\ seps[2] = <<"-", " ">>
    /\ seps[3] = <<" ">>
    /\ out.kind = "return"

\* C8: a string returned by toCamelCase does not begin with an upper-case letter.
C8_FirstCharNotUpper ==
    (fn \in CamelFunctions /\ out.kind = "return" /\ out.val # <<>>) =>
        ~IsUpper(out.val[1])

C8_Witness ==
    /\ fn \in CamelFunctions
    /\ out.kind = "return"
    /\ IsString(input)
    /\ input.str # <<>>
    /\ IsUpper(input.str[1])

\* C9: the boundary expansion of toKebabCase and toDotCase puts exactly one
\* space at every place of the trimmed input where a character of [a-z0-9] is
\* followed by one of [A-Z], and nothing anywhere else; two upper-case letters
\* in a row stay together.
C9_ExpansionExact ==
    (fn \in DelimitedFunctions /\ (out.kind = "return" \/ out.err = "no_alphanumeric")) =>
        /\ IsExpansionOf(out.withBoundaries, out.trimmed)
        /\ \A i \in 1..(Len(out.trimmed) - 1) :
              (IsUpper(out.trimmed[i]) /\ IsUpper(out.trimmed[i + 1]))
                 => Shifted(out.trimmed, i + 1) = Shifted(out.trimmed, i) + 1

C9_Witness ==
    /\ fn = "toKebabCase"
    /\ out.kind = "return"
    /\ Cardinality(Boundaries(out.trimmed)) = 2

\* C10: on a string with at least one character of [A-Za-z0-9] the three
\* implementations of toCamelCase return the same string.
C10_CamelImplementationsAgree ==
    (fn \in CamelFunctions /\ IsString(input) /\ HasAlnum(input.str)) =>
        /\ out.kind = "return"
        /\ out.val = toCamelCase(input).val
        /\ out.val = few_shot_toCamelCase(input).val
        /\ out.val = part_000_toCamelCase(input).val

C10_Witness ==
    /\ fn = "part_000_toCamelCase"
    /\ out.kind = "return"
    /\ IsString(input)
    /\ input.str # <<>>
    /\ IsWhitespace(input.str[1])
    /\ HasUpper(input.str)
    /\ Len(out.parts) = 2

====
